---- MODULE Spec2Model ----
(***************************************************************************)
(* A model of the PDF structural-extraction engine of src/src/ingest.py:   *)
(* the header/footer repetition detector, the heading and section          *)
(* segmenter, the table and image extractors, the reference locator, the   *)
(* scanned-document heuristic, the document assembler and the batch        *)
(* driver.                                                                 *)
(*                                                                         *)
(* Representation.  A string is a sequence of tokens; a token is a run of  *)
(* characters (a word, a paragraph, a blank " ", a blank line "\n\n").     *)
(* Python's None-or-value fields are sequences of length 0 (None) or 1.    *)
(***************************************************************************)
EXTENDS Integers, Sequences, FiniteSets, TLC

VARIABLES
    pc,              \* position of the running function
    text_structure,  \* pages as extract_text_blocks returned them (never changed)
    pages_blocks,    \* the working pages; filtered in place by the repetition detector
    repeated,        \* result of detect_repeated_headers
    sections,        \* result of detect_headings_and_sections
    references_text, \* result of find_references
    page_text_len,   \* per page, the length of its stripped plain text (needs_ocr_check)
    scanned,         \* result of needs_ocr_check
    page_tables,     \* per page, what the table collaborator answers
    tables_meta,     \* result of extract_tables
    files,           \* the sorted *.pdf files of the input directory, with their fate
    idx,             \* batch_process: number of files already handled
    manifest,        \* batch_process: the manifest list in memory
    disk,            \* the output directory on disk
    raised,          \* TRUE when an exception left the function being modelled
    run,             \* number of batch_process invocations started so far
    page_dicts,      \* per page, what page.get_text("dict") answers
    out              \* process_pdf: the out dictionary once it is built

vars == <<pc, text_structure, pages_blocks, repeated, sections, references_text,
          page_text_len, scanned, page_tables, tables_meta, files, idx, manifest, disk, raised, run,
          page_dicts, out>>

(***************************************************************************)
(* Strings                                                                 *)
(***************************************************************************)
None == <<>>
Some(v) == <<v>>

IsSpace(tok) == tok \in {" ", "\n\n"}

\* the number of characters of a token
TokLen(tok) ==
    CASE tok = "P119" -> 119
      [] tok = "P120" -> 120
      [] tok = "\n\n" -> 2
      [] OTHER -> Len(tok)

RECURSIVE StrLen(_)
StrLen(s) == IF s = <<>> THEN 0 ELSE TokLen(Head(s)) + StrLen(Tail(s))

RECURSIVE LStrip(_)
LStrip(s) == IF s # <<>> /\ IsSpace(Head(s)) THEN LStrip(Tail(s)) ELSE s

RECURSIVE RStrip(_)
RStrip(s) ==
    IF s # <<>> /\ IsSpace(s[Len(s)]) THEN RStrip(SubSeq(s, 1, Len(s) - 1)) ELSE s

\* str.strip()
Strip(s) == RStrip(LStrip(s))

\* sep.join(parts)
RECURSIVE Join(_, _)
Join(sep, parts) ==
    IF parts = <<>> THEN <<>>
    ELSE IF Len(parts) = 1 THEN parts[1]
    ELSE parts[1] \o sep \o Join(sep, Tail(parts))

BlankLine == <<"\n\n">>

Max(a, b) == IF a >= b THEN a ELSE b
Min(a, b) == IF a <= b THEN a ELSE b

\* the blocks of all pages, in page order
RECURSIVE AllBlocks(_)
AllBlocks(pages) ==
    IF pages = <<>> THEN <<>> ELSE Head(pages).blocks \o AllBlocks(Tail(pages))

(***************************************************************************)
(* Text extraction.  The layout collaborator's answer for a page is        *)
(* [blocks]; a block is [type, lines], a line a sequence of spans, a span  *)
(* [text, size] with size None when the span has no "size" entry.  Of the  *)
(* block written out only text and max_font_size are read downstream; the  *)
(* bbox, font_sizes, avg_font_size and fonts entries are not modelled.     *)
(***************************************************************************)
\* the spans of a block in the order the two loops visit them
RECURSIVE SpansOf(_)
SpansOf(lines) ==
    IF lines = <<>> THEN <<>> ELSE Head(lines) \o SpansOf(Tail(lines))

\* block_text += span.get("text", "") over the spans
RECURSIVE BlockText(_)
BlockText(spans) ==
    IF spans = <<>> THEN <<>> ELSE Head(spans).text \o BlockText(Tail(spans))

\* span.get("size", 0)
SpanSize(span) == IF span.size = None THEN 0 ELSE span.size[1]

\* max(font_sizes) if font_sizes else None
RECURSIVE MaxFontSize(_)
MaxFontSize(spans) ==
    IF spans = <<>> THEN None
    ELSE LET rest == MaxFontSize(Tail(spans))
         IN  IF rest = None THEN Some(SpanSize(Head(spans)))
             ELSE Some(Max(SpanSize(Head(spans)), rest[1]))

\* ExtractBlock without the test of line 59: a text block is written out
\* even when its text is blank
ExtractBlockKeepBlank(b) ==
    IF b.type # 0 THEN <<>>
    ELSE <<[text         |-> Strip(BlockText(SpansOf(b.lines))),
            max_font_size |-> MaxFontSize(SpansOf(b.lines))]>>

\* one pass of the loop over the blocks of a page: what is appended to
\* blocks_out for the block b (nothing, or one block)
ExtractBlock(b) ==
    IF b.type # 0 THEN <<>>
    ELSE IF Strip(BlockText(SpansOf(b.lines))) = <<>> THEN <<>>
    ELSE <<[text         |-> Strip(BlockText(SpansOf(b.lines))),
            max_font_size |-> MaxFontSize(SpansOf(b.lines))]>>

RECURSIVE BlocksOut(_)
BlocksOut(blocks) ==
    IF blocks = <<>> THEN <<>>
    ELSE ExtractBlock(Head(blocks)) \o BlocksOut(Tail(blocks))

\* extract_text_blocks(path)["pages"]: page_number = p + 1 for p = 0, 1, ...
extract_text_blocks(dicts) ==
    [p \in 1..Len(dicts) |-> [page_number |-> p, blocks |-> BlocksOut(dicts[p].blocks)]]

(***************************************************************************)
(* Header/footer repetition detector                                       *)
(***************************************************************************)
ShortTextCutoff == 120

\* phrase_counter[text] += 1 on an insertion-ordered Counter
CounterAdd(counter, text) ==
    IF \E i \in 1..Len(counter) : counter[i].phrase = text
    THEN [i \in 1..Len(counter) |->
            IF counter[i].phrase = text
            THEN [counter[i] EXCEPT !.count = @ + 1]
            ELSE counter[i]]
    ELSE Append(counter, [phrase |-> text, count |-> 1])

\* the two loops of detect_repeated_headers over the blocks in page order
RECURSIVE CountPhrases(_, _)
CountPhrases(blocks, counter) ==
    IF blocks = <<>> THEN counter
    ELSE LET text == Strip(Head(blocks).text)
         IN  CountPhrases(Tail(blocks),
                          IF StrLen(text) < ShortTextCutoff
                          THEN CounterAdd(counter, text)
                          ELSE counter)

\* max(2, int(0.3 * len(pages_blocks))): int() truncates, and the double
\* product 0.3 * n truncates to (3 * n) \div 10 for every n up to 30
RepeatThreshold(n) == Max(2, (3 * n) \div 10)

RECURSIVE SelectPhrases(_, _)
SelectPhrases(counter, threshold) ==
    IF counter = <<>> THEN <<>>
    ELSE IF Head(counter).count >= threshold
         THEN <<Head(counter).phrase>> \o SelectPhrases(Tail(counter), threshold)
         ELSE SelectPhrases(Tail(counter), threshold)

detect_repeated_headers(pages) ==
    SelectPhrases(CountPhrases(AllBlocks(pages), <<>>), RepeatThreshold(Len(pages)))

InList(x, list) == \E i \in 1..Len(list) : list[i] = x

RECURSIVE FilterBlocks(_, _)
FilterBlocks(blocks, rep) ==
    IF blocks = <<>> THEN <<>>
    ELSE IF InList(Strip(Head(blocks).text), rep)
         THEN FilterBlocks(Tail(blocks), rep)
         ELSE <<Head(blocks)>> \o FilterBlocks(Tail(blocks), rep)

remove_repeated_headers_from_blocks(pages, rep) ==
    IF rep = <<>> THEN pages
    ELSE [i \in 1..Len(pages) |->
            [pages[i] EXCEPT !.blocks = FilterBlocks(@, rep)]]

(***************************************************************************)
(* Heading and section segmenter                                           *)
(***************************************************************************)
\* Python truthiness of a None-or-number and of a None-or-string field
TruthyNum(opt) == opt # None /\ opt[1] # 0
TruthyStr(opt) == opt # None /\ opt[1] # <<>>

\* all_font_sizes: the max_font_size of every block that has a truthy one
RECURSIVE CollectFontSizes(_)
CollectFontSizes(blocks) ==
    IF blocks = <<>> THEN <<>>
    ELSE IF TruthyNum(Head(blocks).max_font_size)
         THEN <<Head(blocks).max_font_size[1]>> \o CollectFontSizes(Tail(blocks))
         ELSE CollectFontSizes(Tail(blocks))

RECURSIVE InsertSorted(_, _)
InsertSorted(x, s) ==
    IF s = <<>> THEN <<x>>
    ELSE IF x <= Head(s) THEN <<x>> \o s
    ELSE <<Head(s)>> \o InsertSorted(x, Tail(s))

RECURSIVE SortSizes(_)
SortSizes(s) == IF s = <<>> THEN <<>> ELSE InsertSorted(Head(s), SortSizes(Tail(s)))

HeadingPercentile == 90

\* Percentile100 without the interpolation (method "lower"): the element at
\* the floor of the virtual index
Percentile100Lower(sizes) ==
    LET srt == SortSizes(sizes)
    IN  100 * srt[((HeadingPercentile * (Len(srt) - 1)) \div 100) + 1]

\* 100 times np.percentile(sizes, 90) with numpy's default linear
\* interpolation: the virtual index is 0.9 * (n - 1) = k + r/100 (0-based),
\* and the result sorted[k] + (sorted[k+1] - sorted[k]) * r/100
Percentile100(sizes) ==
    LET srt == SortSizes(sizes)
        n   == Len(srt)
        k   == (HeadingPercentile * (n - 1)) \div 100
        r   == (HeadingPercentile * (n - 1)) % 100
        lo  == srt[k + 1]
        hi  == srt[Min(k + 2, n)]
    IN  100 * lo + r * (hi - lo)

\* IsHeadingBlock with a strict comparison
IsHeadingBlockStrict(b, threshold100) ==
    TruthyNum(b.max_font_size) /\ 100 * b.max_font_size[1] > threshold100

\* b.get("max_font_size") and b["max_font_size"] >= threshold
IsHeadingBlock(b, threshold100) ==
    TruthyNum(b.max_font_size) /\ 100 * b.max_font_size[1] >= threshold100

PageHeading(n) == <<"Page ", ToString(n)>>

RECURSIVE BlockTexts(_)
BlockTexts(blocks) ==
    IF blocks = <<>> THEN <<>> ELSE <<Head(blocks).text>> \o BlockTexts(Tail(blocks))

\* FallbackSections numbering the pages from 0, as enumerate() would
FallbackSectionsZeroBased(pages) ==
    [i \in 1..Len(pages) |->
        [heading    |-> <<"Page ", ToString(i - 1)>>,
         text       |-> Join(<<"\n\n">>, BlockTexts(pages[i].blocks)),
         start_page |-> Some(i - 1),
         end_page   |-> Some(i - 1)]]

\* the fallback: one section per page
FallbackSections(pages) ==
    [i \in 1..Len(pages) |->
        [heading    |-> PageHeading(pages[i].page_number),
         text       |-> Join(BlankLine, BlockTexts(pages[i].blocks)),
         start_page |-> Some(pages[i].page_number),
         end_page   |-> Some(pages[i].page_number)]]

EmptyCurrent == [heading |-> None, text |-> <<>>, start_page |-> None, end_page |-> None]

\* the section appended when the current accumulation is finalized
Finalized(current, default) ==
    [heading    |-> IF TruthyStr(current.heading) THEN current.heading[1] ELSE default,
     text       |-> Strip(current.text),
     start_page |-> current.start_page,
     end_page   |-> current.end_page]

HasContent(current) == TruthyStr(current.heading) \/ current.text # <<>>

\* SegmentStep with the finalize test reduced to `if current["heading"]`:
\* text gathered before the first heading is lost
SegmentStepHeadedOnly(st, pn, b, threshold100) ==
    IF TruthyNum(b.max_font_size) /\ 100 * b.max_font_size[1] >= threshold100
    THEN [sections |-> IF TruthyStr(st.current.heading)
                       THEN Append(st.sections,
                                   [heading    |-> st.current.heading[1],
                                    text       |-> Strip(st.current.text),
                                    start_page |-> st.current.start_page,
                                    end_page   |-> st.current.end_page])
                       ELSE st.sections,
          current  |-> [heading    |-> Some(Strip(b.text)),
                        text       |-> <<>>,
                        start_page |-> Some(pn),
                        end_page   |-> Some(pn)]]
    ELSE [sections |-> st.sections,
          current  |-> [heading    |-> st.current.heading,
                        text       |-> st.current.text \o <<"\n\n">> \o Strip(b.text),
                        start_page |-> IF st.current.start_page = <<>>
                                       THEN Some(pn) ELSE st.current.start_page,
                        end_page   |-> Some(pn)]]

\* one iteration of the inner loop over the block b of page number pn
SegmentStep(st, pn, b, threshold100) ==
    IF IsHeadingBlock(b, threshold100)
    THEN [sections |-> IF HasContent(st.current)
                       THEN Append(st.sections, Finalized(st.current, <<"Untitled">>))
                       ELSE st.sections,
          current  |-> [heading    |-> Some(Strip(b.text)),
                        text       |-> <<>>,
                        start_page |-> Some(pn),
                        end_page   |-> Some(pn)]]
    ELSE [sections |-> st.sections,
          current  |-> [heading    |-> st.current.heading,
                        text       |-> st.current.text \o BlankLine \o Strip(b.text),
                        start_page |-> IF st.current.start_page = None
                                       THEN Some(pn) ELSE st.current.start_page,
                        end_page   |-> Some(pn)]]

RECURSIVE SegmentBlocks(_, _, _, _)
SegmentBlocks(st, pn, blocks, threshold100) ==
    IF blocks = <<>> THEN st
    ELSE SegmentBlocks(SegmentStep(st, pn, Head(blocks), threshold100),
                       pn, Tail(blocks), threshold100)

RECURSIVE SegmentPages(_, _, _)
SegmentPages(st, pages, threshold100) ==
    IF pages = <<>> THEN st
    ELSE SegmentPages(SegmentBlocks(st, Head(pages).page_number,
                                    Head(pages).blocks, threshold100),
                      Tail(pages), threshold100)

detect_headings_and_sections(pages) ==
    LET all_font_sizes == CollectFontSizes(AllBlocks(pages))
    IN  IF all_font_sizes = <<>> THEN FallbackSections(pages)
        ELSE LET st == SegmentPages([sections |-> <<>>, current |-> EmptyCurrent],
                                    pages, Percentile100(all_font_sizes))
             IN  IF HasContent(st.current)
                 THEN Append(st.sections, Finalized(st.current, <<"Introduction">>))
                 ELSE st.sections

(***************************************************************************)
(* Reference locator                                                       *)
(***************************************************************************)
\* str.lower() of a token
LowerTok(tok) ==
    CASE tok \in {"References", "REFERENCES", "references"} -> "references"
      [] tok \in {"Reference", "reference"}                 -> "reference"
      [] tok \in {"Bibliography", "bibliography"}           -> "bibliography"
      [] tok \in {"Works", "WORKS", "works"}                -> "works"
      [] tok \in {"Cited", "CITED", "cited"}                -> "cited"
      [] tok \in {"Intro", "intro"}                         -> "intro"
      [] OTHER -> tok

Lower(s) == [i \in 1..Len(s) |-> LowerTok(s[i])]

ReferenceMarkers ==
    {<<"references">>, <<"reference">>, <<"bibliography">>, <<"works", " ", "cited">>}

\* ScanReferences without the `not found` test: every marker block is skipped
RECURSIVE ScanReferencesSkipMarkers(_, _, _)
ScanReferencesSkipMarkers(blocks, found, ref_texts) ==
    IF blocks = <<>> THEN ref_texts
    ELSE LET t == Strip(Head(blocks).text)
         IN  IF Lower(t) \in ReferenceMarkers
             THEN ScanReferencesSkipMarkers(Tail(blocks), TRUE, ref_texts)
             ELSE ScanReferencesSkipMarkers(Tail(blocks), found,
                                 IF found THEN Append(ref_texts, t) ELSE ref_texts)

\* the loop of find_references: ref_texts after scanning the blocks in order
RECURSIVE ScanReferences(_, _, _)
ScanReferences(blocks, found, ref_texts) ==
    IF blocks = <<>> THEN ref_texts
    ELSE LET t == Strip(Head(blocks).text)
         IN  IF ~found /\ Lower(t) \in ReferenceMarkers
             THEN ScanReferences(Tail(blocks), TRUE, ref_texts)
             ELSE ScanReferences(Tail(blocks), found,
                                 IF found THEN Append(ref_texts, t) ELSE ref_texts)

find_references(pages) == Strip(Join(BlankLine, ScanReferences(AllBlocks(pages), FALSE, <<>>)))

(***************************************************************************)
(* Scanned-document heuristic                                              *)
(***************************************************************************)
PageSampleCount == 3
OcrMinChars == 50

\* empty_pages after the loop over the first `sample` pages
RECURSIVE CountEmptyPages(_, _)
CountEmptyPages(lens, sample) ==
    IF sample = 0 THEN 0
    ELSE CountEmptyPages(lens, sample - 1)
         + (IF lens[sample] < OcrMinChars THEN 1 ELSE 0)

needs_ocr_check(lens) ==
    LET sample == Min(PageSampleCount, Len(lens))
    IN  CountEmptyPages(lens, sample) >= Max(1, sample \div 2)

(***************************************************************************)
(* File names and derived paths.  A file name is a sequence of characters. *)
(***************************************************************************)
MaxNameLen == 200

IsAlnum(c) == c \in {"a", "b", "d", "f", "p", "1", "2"}

\* "".join(c if c.isalnum() or c in "._-" else "_" for c in name)[:200]
sanitize_filename(name) ==
    LET mapped == [i \in 1..Len(name) |->
                      IF IsAlnum(name[i]) \/ name[i] \in {".", "_", "-"}
                      THEN name[i] ELSE "_"]
    IN  SubSeq(mapped, 1, Min(Len(mapped), MaxNameLen))

PdfSuffix == <<".", "p", "d", "f">>

\* os.path.basename(path) of the file with the given stem
Basename(stem) == stem \o PdfSuffix

\* os.path.join(output_dir, sub, fname); sub is "" for the directory itself
OutPath(sub, fname) == [dir |-> sub, name |-> fname]

JsonPath(stem) == OutPath("", sanitize_filename(stem) \o <<".json">>)

TablePath(stem, page, tidx) ==
    OutPath("tables", sanitize_filename(stem)
                      \o <<"_p", ToString(page), "_table", ToString(tidx), ".csv">>)

ImagePath(stem, page, img_index, ext) ==
    OutPath("images", sanitize_filename(stem)
                      \o <<"_p", ToString(page), "_img", ToString(img_index), ".", ext>>)

(***************************************************************************)
(* Table extractor.  The collaborator's answer for a page is               *)
(* [raises, tables]; a table is a sequence of rows, a row a sequence of    *)
(* cells.  The table_id (a uuid4) is not modelled.                         *)
(***************************************************************************)
\* the record appended for the tidx-th table of page i
TableRecord(stem, i, tidx, table) ==
    [page     |-> i,
     csv_path |-> TablePath(stem, i, tidx),
     rows     |-> Len(table),
     cols     |-> IF table # <<>> /\ Len(table) > 0 THEN Len(table[1]) ELSE 0,
     raw      |-> table]

\* page.extract_tables() inside try/except: [] when it raises
PageTablesOrEmpty(answer) == IF answer.raises THEN <<>> ELSE answer.tables

\* the inner loop over one page's tables
TablesOfPage(stem, i, answer) ==
    LET page_tbls == PageTablesOrEmpty(answer)
    IN  [tidx \in 1..Len(page_tbls) |-> TableRecord(stem, i, tidx, page_tbls[tidx])]

\* the outer loop over pages 1..n
RECURSIVE ExtractTablesUpTo(_, _, _)
ExtractTablesUpTo(stem, answers, n) ==
    IF n = 0 THEN <<>>
    ELSE ExtractTablesUpTo(stem, answers, n - 1) \o TablesOfPage(stem, n, answers[n])

\* extract_tables with the try/except around the whole loop: the first page
\* whose detection raises ends the extraction
extract_tables_stop_at_failure(stem, answers) ==
    LET failing == {i \in 1..Len(answers) : answers[i].raises}
        last    == IF failing = {} THEN Len(answers)
                   ELSE (CHOOSE i \in failing : \A j \in failing : i <= j) - 1
    IN  ExtractTablesUpTo(stem, answers, last)

extract_tables(stem, answers) == ExtractTablesUpTo(stem, answers, Len(answers))

\* the storage paths of a list of records
PathsOf(meta, field) == {meta[k][field] : k \in 1..Len(meta)}

(***************************************************************************)
(* Image extractor.  The collaborator's answer for a page is               *)
(* [raises, images] (get_images raising, or the image list); an image is   *)
(* [raises, ext, width, height] (extract_image raising, or the payload     *)
(* with an optional "ext").  There is no try/except: the first exception   *)
(* leaves the function, after the earlier images were written.             *)
(***************************************************************************)
ImageRecord(stem, pageno, img_index, img) ==
    LET ext == IF img.ext = None THEN "png" ELSE img.ext[1]
    IN  [page   |-> pageno,
         path   |-> ImagePath(stem, pageno, img_index, ext),
         ext    |-> ext,
         width  |-> img.width,
         height |-> img.height]

\* the inner loop from image k of page pageno, st = [meta, raised]
RECURSIVE ImagesOfPage(_, _, _, _, _)
ImagesOfPage(st, stem, pageno, imgs, k) ==
    IF st.raised \/ k > Len(imgs) THEN st
    ELSE IF imgs[k].raises THEN [st EXCEPT !.raised = TRUE]
    ELSE ImagesOfPage([st EXCEPT !.meta = Append(@, ImageRecord(stem, pageno, k, imgs[k]))],
                      stem, pageno, imgs, k + 1)

\* the outer loop from page pageno
RECURSIVE ImagesFromPage(_, _, _, _)
ImagesFromPage(st, stem, answers, pageno) ==
    IF st.raised \/ pageno > Len(answers) THEN st
    ELSE IF answers[pageno].raises THEN [st EXCEPT !.raised = TRUE]
    ELSE ImagesFromPage(ImagesOfPage(st, stem, pageno, answers[pageno].images, 1),
                        stem, answers, pageno + 1)

\* [meta, raised]: the images recorded (and written), and whether an
\* exception left extract_images
extract_images(stem, answers) ==
    ImagesFromPage([meta |-> <<>>, raised |-> FALSE], stem, answers, 1)

(***************************************************************************)
(* Document assembler.  A source file is                                   *)
(*   [stem, corrupt, meta_title, pages, page_tables, page_images,          *)
(*    page_text_len]:                                                      *)
(* corrupt = fitz.open raises; the other fields are what the layout, table,*)
(* image and plain-text collaborators answer for it.  The output directory *)
(* is [exists, json, tables, images, manifest]: json a set of              *)
(* [path, content], tables and images sets of paths, manifest None or the  *)
(* written list.                                                           *)
(***************************************************************************)
EmptyDisk == [exists |-> FALSE, json |-> {}, tables |-> {}, images |-> {}, manifest |-> None]

\* the blocks that remain after lines 282-284 of process_pdf
FilteredPages(pages) ==
    LET rep == detect_repeated_headers(pages)
    IN  IF rep # <<>> THEN remove_repeated_headers_from_blocks(pages, rep) ELSE pages

\* os.makedirs(dirname(path), exist_ok=True) and the write of one file of a
\* subdirectory: the output directory exists afterwards
WriteArtifacts(dsk, kind, paths) ==
    IF paths = {} THEN dsk
    ELSE [dsk EXCEPT !.exists = TRUE, ![kind] = @ \cup paths]

\* open(out_path, "w") and json.dump: the file at the path is replaced
WriteJson(dsk, path, content) ==
    [dsk EXCEPT !.exists = TRUE,
                !.json = {e \in @ : e.path # path} \cup {[path |-> path, content |-> content]}]

\* extract_metadata(doc): the entries the output depends on; the author,
\* subject, producer and dates are copied through and read by nothing
extract_metadata(file) ==
    [title |-> Strip(file.meta_title), num_pages |-> Len(file.pages)]

\* DocTitle with the first section's heading preferred to the metadata title
DocTitleHeadingFirst(metadata, sects, stem) ==
    IF sects # <<>> THEN sects[1].heading
    ELSE IF metadata.title # <<>> THEN metadata.title
    ELSE stem

\* metadata.get("title") or (sections[0]["heading"] if sections else stem)
DocTitle(metadata, sects, stem) ==
    IF metadata.title # <<>> THEN metadata.title
    ELSE IF sects # <<>> THEN sects[1].heading
    ELSE stem

\* process_pdf up to the out dictionary (lines 272-315), doc_id the fresh
\* uuid4: [raised, out, disk], out = Some(dictionary) when nothing was raised
AssembleDoc(file, dsk, doc_id) ==
    IF file.corrupt THEN [raised |-> TRUE, out |-> None, disk |-> dsk]
    ELSE LET metadata == extract_metadata(file)
             filtered == FilteredPages(file.pages)
             sects    == detect_headings_and_sections(filtered)
             tbls     == extract_tables(file.stem, file.page_tables)
             dsk1     == WriteArtifacts(dsk, "tables", PathsOf(tbls, "csv_path"))
             imgs     == extract_images(file.stem, file.page_images)
             dsk2     == WriteArtifacts(dsk1, "images", PathsOf(imgs.meta, "path"))
             doc      == [doc_id     |-> doc_id,
                          filename   |-> Basename(file.stem),
                          title      |-> DocTitle(metadata, sects, file.stem),
                          metadata   |-> metadata,
                          sections   |-> sects,
                          tables     |-> tbls,
                          figures    |-> imgs.meta,
                          references |-> find_references(filtered),
                          raw_text   |-> Join(BlankLine, BlockTexts(AllBlocks(filtered))),
                          needs_ocr  |-> needs_ocr_check(file.page_text_len)]
         IN  IF imgs.raised THEN [raised |-> TRUE, out |-> None, disk |-> dsk2]
             ELSE [raised |-> FALSE, out |-> Some(doc), disk |-> dsk2]

\* process_pdf(path, output_dir): the out dictionary is built, then saved
process_pdf(file, dsk, doc_id) ==
    LET built == AssembleDoc(file, dsk, doc_id)
    IN  IF built.raised THEN built
        ELSE [built EXCEPT !.disk = WriteJson(@, JsonPath(file.stem), built.out[1])]

(***************************************************************************)
(* Batch driver                                                            *)
(***************************************************************************)
\* the code point of a character of a file name
CharCode(c) ==
    CASE c = " " -> 32 [] c = "-" -> 45 [] c = "." -> 46 [] c = "1" -> 49
      [] c = "2" -> 50 [] c = "_" -> 95 [] c = "a" -> 97 [] c = "b" -> 98
      [] c = "d" -> 100 [] c = "f" -> 102 [] c = "p" -> 112

\* Python's str < str
RECURSIVE StrLess(_, _)
StrLess(x, y) ==
    IF y = <<>> THEN FALSE
    ELSE IF x = <<>> THEN TRUE
    ELSE IF Head(x) = Head(y) THEN StrLess(Tail(x), Tail(y))
    ELSE CharCode(Head(x)) < CharCode(Head(y))

\* sorted(input_dir.glob("*.pdf")) over a directory holding the given stems
RECURSIVE SortedStems(_)
SortedStems(stems) ==
    IF stems = {} THEN <<>>
    ELSE LET first == CHOOSE x \in stems :
                         \A y \in stems \ {x} : StrLess(Basename(x), Basename(y))
         IN  <<first>> \o SortedStems(stems \ {first})

\* str(uuid.uuid4()): a value no other call returns
Uuid(r, k) == <<r, k>>

ManifestEntry(doc, stem) ==
    [doc_id |-> doc.doc_id, filename |-> doc.filename, json_path |-> JsonPath(stem)]

\* ManifestAfter with the append moved out of the try block: a failed file
\* gets an entry too
ManifestAfterAlways(mf, res, stem) ==
    Append(mf, [doc_id    |-> IF res.raised THEN <<0, 0>> ELSE res.out[1].doc_id,
                filename  |-> Basename(stem),
                json_path |-> JsonPath(stem)])

\* the manifest after the try/except around one file
ManifestAfter(mf, res, stem) ==
    IF res.raised THEN mf ELSE Append(mf, ManifestEntry(res.out[1], stem))

(***************************************************************************)
(* Inputs                                                                  *)
(***************************************************************************)
MaxPagesH  == 7   \* pages of a document given to the repetition detector
MaxPages   == 4   \* pages of a document given to the segmenter and the locator
MaxBlocks  == 4   \* blocks of a document
MaxBlocks1 == 5   \* blocks of a one-page document given to the segmenter
MaxPagesO  == 6   \* pages of a document given to the scanned heuristic
MaxPagesT  == 3   \* pages of a document given to the table extractor
MaxTables  == 2   \* tables the collaborator finds on one page
MaxRuns    == 2   \* invocations of batch_process on one output directory

SeqsUpTo(S, n) == UNION {[1..k -> S] : k \in 0..n}

\* the ways to lay k blocks out over n pages in reading order
PageAssignments(k, n) ==
    {f \in [1..k -> 1..n] : \A i \in 1..(k - 1) : f[i] <= f[i + 1]}

RECURSIVE BlocksOnPage(_, _, _)
BlocksOnPage(blocks, assign, i) ==
    IF blocks = <<>> THEN <<>>
    ELSE (IF Head(assign) = i THEN <<Head(blocks)>> ELSE <<>>)
         \o BlocksOnPage(Tail(blocks), Tail(assign), i)

\* the pages extract_text_blocks returns: page_number = p + 1
MkPages(blocks, assign, n) ==
    [i \in 1..n |-> [page_number |-> i, blocks |-> BlocksOnPage(blocks, assign, i)]]

\* text_structure is a document of at most maxp pages and maxb blocks whose
\* blocks are drawn from the given (text, max_font_size) choices
IsDocument(choices, maxp, maxb) ==
    \E n \in 0..maxp : \E bs \in SeqsUpTo(choices, maxb) :
        \E f \in PageAssignments(Len(bs), n) : text_structure = MkPages(bs, f, n)

HeaderTexts == {<<"Hdr">>, <<"P119">>, <<"P120">>}
HeaderBlocks == {[text |-> t, max_font_size |-> None] : t \in HeaderTexts}

FontChoices == {None, Some(0), Some(10), Some(24)}
\* the k-th block of a document; its text names its position
PositionalBlocks(fonts) ==
    [k \in 1..Len(fonts) |-> [text |-> <<"blk", ToString(k)>>, max_font_size |-> fonts[k]]]
RefTexts == {<<"References">>, <<"WORKS", " ", "CITED">>, <<"Intro">>,
             <<"References", " ", "list">>}
RefBlocks == {[text |-> t, max_font_size |-> None] : t \in RefTexts}

PageLengths == {0, 49, 50}

TableChoices == {<<>>, <<<<"x">>, <<"y", "z">>>>}
TableAnswers ==
    {[raises |-> TRUE, tables |-> <<>>]}
    \cup {[raises |-> FALSE, tables |-> t] : t \in SeqsUpTo(TableChoices, MaxTables)}
TableStem == <<"a", " ", "b">>

MaxRawPages  == 2   \* pages of a document given to the text extractor
MaxRawBlocks == 4   \* layout blocks of a document given to the text extractor

Span(text, size) == [text |-> text, size |-> size]
\* the layout blocks: an image block, a text block without lines, a text
\* block of blanks, a padded "Hdr", a "Hdr" whose span has no size, and a
\* body text of two lines
RawBlockChoices ==
    {[type |-> 1, lines |-> <<>>],
     [type |-> 0, lines |-> <<>>],
     [type |-> 0, lines |-> <<<<Span(<<" ">>, Some(10))>>, <<Span(<<"\n\n">>, Some(10))>>>>],
     [type |-> 0, lines |-> <<<<Span(<<" ", "Hdr">>, Some(10)), Span(<<" ">>, Some(10))>>>>],
     [type |-> 0, lines |-> <<<<Span(<<"Hdr", " ">>, None)>>>>],
     [type |-> 0, lines |-> <<<<Span(<<"Body">>, Some(10))>>,
                              <<Span(<<" ">>, None), Span(<<"more">>, Some(24))>>>>]}

(***************************************************************************)
(* The steps of process_pdf on one document                                *)
(***************************************************************************)
docVars   == <<text_structure, pages_blocks, repeated, sections, references_text>>
ocrVars   == <<page_text_len, scanned>>
tableVars == <<page_tables, tables_meta>>
batchVars == <<files, idx, manifest, disk, raised, run>>
procVars  == <<page_dicts, out>>

NoDoc    == /\ text_structure = <<>> /\ pages_blocks = <<>> /\ repeated = <<>>
            /\ sections = <<>> /\ references_text = <<>>
NoOcr    == page_text_len = <<>> /\ scanned = FALSE
NoTables == page_tables = <<>> /\ tables_meta = <<>>
NoBatch  == /\ files = <<>> /\ idx = 0 /\ manifest = <<>> /\ disk = EmptyDisk
            /\ raised = FALSE /\ run = 0
NoProc   == page_dicts = <<>> /\ out = None

\* repeated = detect_repeated_headers(pages_blocks)
DetectRepeatedHeaders ==
    /\ pc = "extracted"
    /\ repeated' = detect_repeated_headers(pages_blocks)
    /\ pc' = "detected"
    /\ UNCHANGED <<text_structure, pages_blocks, sections, references_text>>
    /\ UNCHANGED <<ocrVars, tableVars, batchVars, procVars>>

\* if repeated: pages_blocks = remove_repeated_headers_from_blocks(...)
RemoveRepeatedHeaders ==
    /\ pc = "detected"
    /\ pages_blocks' = IF repeated # <<>>
                       THEN remove_repeated_headers_from_blocks(pages_blocks, repeated)
                       ELSE pages_blocks
    /\ pc' = "filtered"
    /\ UNCHANGED <<text_structure, repeated, sections, references_text>>
    /\ UNCHANGED <<ocrVars, tableVars, batchVars, procVars>>

\* sections = detect_headings_and_sections(pages_blocks)
DetectSections ==
    /\ pc = "filtered"
    /\ sections' = detect_headings_and_sections(pages_blocks)
    /\ pc' = "sectioned"
    /\ UNCHANGED <<text_structure, pages_blocks, repeated, references_text>>
    /\ UNCHANGED <<ocrVars, tableVars, batchVars, procVars>>

\* references_text = find_references(pages_blocks)
FindReferences ==
    /\ pc = "filtered"
    /\ references_text' = find_references(pages_blocks)
    /\ pc' = "referenced"
    /\ UNCHANGED <<text_structure, pages_blocks, repeated, sections>>
    /\ UNCHANGED <<ocrVars, tableVars, batchVars, procVars>>

\* scanned = needs_ocr_check(path)
NeedsOcrCheck ==
    /\ pc = "ocr_start"
    /\ scanned' = needs_ocr_check(page_text_len)
    /\ pc' = "ocr_done"
    /\ UNCHANGED <<page_text_len, docVars, tableVars, batchVars, procVars>>

\* tables_meta = extract_tables(path, output_dir)
ExtractTables ==
    /\ pc = "tables_start"
    /\ tables_meta' = extract_tables(TableStem, page_tables)
    /\ pc' = "tables_done"
    /\ UNCHANGED <<page_tables, docVars, ocrVars, batchVars, procVars>>

InitHeaders ==
    /\ pc = "extracted"
    /\ IsDocument(HeaderBlocks, MaxPagesH, MaxBlocks)
    /\ pages_blocks = text_structure
    /\ repeated = <<>> /\ sections = <<>> /\ references_text = <<>>
    /\ NoOcr /\ NoTables /\ NoBatch
    /\ NoProc

InitSections ==
    /\ pc = "filtered"
    /\ \/ \E fs \in SeqsUpTo(FontChoices, MaxBlocks) : \E n \in 0..MaxPages :
             \E f \in PageAssignments(Len(fs), n) :
                 text_structure = MkPages(PositionalBlocks(fs), f, n)
       \/ \E fs \in SeqsUpTo(FontChoices, MaxBlocks1) :
             text_structure = MkPages(PositionalBlocks(fs), [k \in 1..Len(fs) |-> 1], 1)
    /\ pages_blocks = text_structure
    /\ repeated = <<>> /\ sections = <<>> /\ references_text = <<>>
    /\ NoOcr /\ NoTables /\ NoBatch
    /\ NoProc

InitRefs ==
    /\ pc = "filtered"
    /\ IsDocument(RefBlocks, MaxPages, MaxBlocks)
    /\ pages_blocks = text_structure
    /\ repeated = <<>> /\ sections = <<>> /\ references_text = <<>>
    /\ NoOcr /\ NoTables /\ NoBatch
    /\ NoProc

InitOcr ==
    /\ pc = "ocr_start"
    /\ page_text_len \in SeqsUpTo(PageLengths, MaxPagesO)
    /\ scanned = FALSE
    /\ NoDoc /\ NoTables /\ NoBatch
    /\ NoProc

InitTables ==
    /\ pc = "tables_start"
    /\ page_tables \in SeqsUpTo(TableAnswers, MaxPagesT)
    /\ tables_meta = <<>>
    /\ NoDoc /\ NoOcr /\ NoBatch
    /\ NoProc

\* text_structure = extract_text_blocks(path); pages_blocks = its pages
ExtractTextBlocks ==
    /\ pc = "opened"
    /\ text_structure' = extract_text_blocks(page_dicts)
    /\ pages_blocks' = extract_text_blocks(page_dicts)
    /\ pc' = "extracted"
    /\ UNCHANGED <<repeated, sections, references_text, page_dicts, out>>
    /\ UNCHANGED <<ocrVars, tableVars, batchVars>>

InitExtract ==
    /\ pc = "opened"
    /\ \E n \in 0..MaxRawPages : \E bs \in SeqsUpTo(RawBlockChoices, MaxRawBlocks) :
          \E f \in PageAssignments(Len(bs), n) :
              page_dicts = [i \in 1..n |-> [blocks |-> BlocksOnPage(bs, f, i)]]
    /\ out = None
    /\ NoDoc /\ NoOcr /\ NoTables /\ NoBatch

NextExtract == ExtractTextBlocks \/ DetectRepeatedHeaders \/ RemoveRepeatedHeaders
SpecExtract == InitExtract /\ [][NextExtract]_vars

NextHeaders  == DetectRepeatedHeaders \/ RemoveRepeatedHeaders
NextSections == DetectSections
NextRefs     == FindReferences
NextOcr      == NeedsOcrCheck
NextTables   == ExtractTables

SpecHeaders  == InitHeaders /\ [][NextHeaders]_vars
SpecSections == InitSections /\ [][NextSections]_vars
SpecRefs     == InitRefs /\ [][NextRefs]_vars
SpecOcr      == InitOcr /\ [][NextOcr]_vars
SpecTables   == InitTables /\ [][NextTables]_vars

(***************************************************************************)
(* The batch driver on a directory of source files                         *)
(***************************************************************************)
Stems == {<<"a">>, <<"a", " ", "b">>, <<"a", "_", "b">>}
Kinds == {"plain", "rich", "corrupt", "imgfail"}

TitledPage(n) ==
    [page_number |-> n,
     blocks |-> <<[text |-> <<"Title">>, max_font_size |-> Some(24)],
                  [text |-> <<"Body">>, max_font_size |-> Some(10)]>>]
NoTablesOnPage == [raises |-> FALSE, tables |-> <<>>]
NoImagesOnPage == [raises |-> FALSE, images |-> <<>>]
GoodImage(ext) == [raises |-> FALSE, ext |-> ext, width |-> 8, height |-> 8]
BadImage       == [raises |-> TRUE, ext |-> None, width |-> 0, height |-> 0]

\* the source file of the given stem and kind:
\*   plain         one page of text, no table, no image
\*   rich          two pages; a table on page 1, table detection raising on
\*                 page 2; one image on each page
\*   corrupt       fitz.open raises
\*   imgfail       a table and an image on page 1, extract_image raising on
\*                 the image of page 2
FileOf(stem, kind) ==
    [stem          |-> stem,
     corrupt       |-> kind = "corrupt",
     meta_title    |-> IF kind = "rich" THEN <<" ", "T">> ELSE <<>>,
     pages         |-> IF kind = "plain" THEN <<TitledPage(1)>>
                       ELSE <<TitledPage(1), [page_number |-> 2, blocks |-> <<>>]>>,
     page_tables   |-> CASE kind = "plain" -> <<NoTablesOnPage>>
                         [] kind \in {"rich", "imgfail"} ->
                              <<[raises |-> FALSE, tables |-> <<<<<<"x", "y">>>>>>],
                                [raises |-> kind = "rich", tables |-> <<>>]>>
                         [] OTHER -> <<NoTablesOnPage, NoTablesOnPage>>,
     page_images   |-> CASE kind = "plain" -> <<NoImagesOnPage>>
                         [] kind = "rich" ->
                              <<[raises |-> FALSE, images |-> <<GoodImage(Some("jpeg"))>>],
                                [raises |-> FALSE, images |-> <<GoodImage(None)>>]>>
                         [] kind = "imgfail" ->
                              <<[raises |-> FALSE, images |-> <<GoodImage(None)>>],
                                [raises |-> FALSE, images |-> <<BadImage>>]>>
                         [] OTHER -> <<NoImagesOnPage, NoImagesOnPage>>,
     page_text_len |-> IF kind = "plain" THEN <<60>> ELSE <<60, 0>>]

\* batch_process is called: manifest = [], the sorted glob of the directory
StartBatch ==
    /\ pc \in {"idle", "done", "raised"}
    /\ run < MaxRuns
    /\ \E stems \in SUBSET Stems : \E kindOf \in [stems -> Kinds] :
          LET srt == SortedStems(stems)
          IN  files' = [k \in 1..Len(srt) |-> FileOf(srt[k], kindOf[srt[k]])]
    /\ idx' = 0
    /\ manifest' = <<>>
    /\ raised' = FALSE
    /\ run' = run + 1
    /\ pc' = "loop"
    /\ UNCHANGED <<disk, docVars, ocrVars, tableVars, procVars>>

\* one iteration of the loop: process_pdf inside try/except, then the append
ProcessNext ==
    /\ pc = "loop"
    /\ idx < Len(files)
    /\ LET file == files[idx + 1]
           res  == process_pdf(file, disk, Uuid(run, idx + 1))
       IN  /\ disk' = res.disk
           /\ manifest' = ManifestAfter(manifest, res, file.stem)
    /\ idx' = idx + 1
    /\ UNCHANGED <<pc, files, raised, run, docVars, ocrVars, tableVars, procVars>>

\* after the loop: open(manifest_path, "w") raises FileNotFoundError when the
\* output directory does not exist, else the manifest file is replaced
WriteManifest ==
    /\ pc = "loop"
    /\ idx = Len(files)
    /\ IF disk.exists
       THEN /\ disk' = [disk EXCEPT !.manifest = Some(manifest)]
            /\ pc' = "done"
            /\ UNCHANGED raised
       ELSE /\ raised' = TRUE
            /\ pc' = "raised"
            /\ UNCHANGED disk
    /\ UNCHANGED <<files, idx, manifest, run, docVars, ocrVars, tableVars, procVars>>

InitBatch ==
    /\ pc = "idle"
    /\ NoBatch /\ NoDoc /\ NoOcr /\ NoTables
    /\ NoProc

NextBatch == StartBatch \/ ProcessNext \/ WriteManifest

SpecBatch == InitBatch /\ [][NextBatch]_vars

(***************************************************************************)
(* process_pdf on one source file, the save of lines 317-321 step by step: *)
(* os.makedirs and open(out_path, "w") leave an empty file at the path,    *)
(* json.dump writes the dictionary entry after entry, and an I/O error can *)
(* end the call before or between the writes.                              *)
(***************************************************************************)
\* the entries of out in the order json.dump writes them
JsonKeys == <<"doc_id", "filename", "title", "metadata", "sections", "tables",
              "figures", "references", "raw_text", "needs_ocr">>

\* the content of the file once the first j entries of doc are written
PartialJson(doc, j) == [k \in {JsonKeys[i] : i \in 1..j} |-> doc[k]]

\* the number of entries in the file at the path
WrittenEntries(dsk, path) ==
    LET e == CHOOSE x \in dsk.json : x.path = path
    IN  Cardinality(DOMAIN e.content)

MetaTitles == {<<>>, <<" ">>, <<" ", "T">>}
DocKinds == Kinds \cup {"empty"}

\* a source file without pages
EmptyFile(stem) ==
    [stem |-> stem, corrupt |-> FALSE, meta_title |-> <<>>, pages |-> <<>>,
     page_tables |-> <<>>, page_images |-> <<>>, page_text_len |-> <<>>]

\* the source file of the given stem and kind whose metadata holds the title
DocFile(stem, kind, title) ==
    [(IF kind = "empty" THEN EmptyFile(stem) ELSE FileOf(stem, kind))
        EXCEPT !.meta_title = title]

\* the output directory after process_pdf has run r times on the file
RECURSIVE DiskAfterRuns(_, _)
DiskAfterRuns(file, r) ==
    IF r = 0 THEN EmptyDisk
    ELSE process_pdf(file, DiskAfterRuns(file, r - 1), Uuid(r, 1)).disk

\* lines 272-315: the collaborators are called and out is built
AssembleOut ==
    /\ pc = "doc_start"
    /\ LET built == AssembleDoc(files[1], disk, Uuid(run, 1))
       IN  /\ disk' = built.disk
           /\ out' = built.out
           /\ raised' = built.raised
           /\ pc' = IF built.raised THEN "raised" ELSE "assembled"
    /\ UNCHANGED <<files, idx, manifest, run, page_dicts, docVars, ocrVars, tableVars>>

\* os.makedirs(output_dir, exist_ok=True); open(out_path, "w")
SaveOpen ==
    /\ pc = "assembled"
    /\ disk' = WriteJson(disk, JsonPath(files[1].stem), PartialJson(out[1], 0))
    /\ pc' = "dumping"
    /\ UNCHANGED <<files, idx, manifest, raised, run, procVars, docVars, ocrVars, tableVars>>

\* json.dump writes the next entry
SaveDump ==
    /\ pc = "dumping"
    /\ WrittenEntries(disk, JsonPath(files[1].stem)) < Len(JsonKeys)
    /\ disk' = WriteJson(disk, JsonPath(files[1].stem),
                         PartialJson(out[1], WrittenEntries(disk, JsonPath(files[1].stem)) + 1))
    /\ UNCHANGED <<pc, files, idx, manifest, raised, run, procVars, docVars, ocrVars, tableVars>>

\* the with block is left after the last entry; process_pdf returns out
SaveClose ==
    /\ pc = "dumping"
    /\ WrittenEntries(disk, JsonPath(files[1].stem)) = Len(JsonKeys)
    /\ pc' = "saved"
    /\ UNCHANGED <<files, idx, manifest, disk, raised, run, procVars, docVars, ocrVars, tableVars>>

\* os.makedirs, open or a write raises OSError: nothing in process_pdf
\* catches it, and what is on disk stays
SaveFail ==
    /\ \/ pc = "assembled"
       \/ pc = "dumping" /\ WrittenEntries(disk, JsonPath(files[1].stem)) < Len(JsonKeys)
    /\ raised' = TRUE
    /\ pc' = "raised"
    /\ UNCHANGED <<files, idx, manifest, disk, run, procVars, docVars, ocrVars, tableVars>>

InitDoc ==
    /\ pc = "doc_start"
    /\ \E stem \in Stems : \E kind \in DocKinds : \E title \in MetaTitles :
          files = <<DocFile(stem, kind, title)>>
    /\ run \in 1..MaxRuns
    /\ disk = DiskAfterRuns(files[1], run - 1)
    /\ idx = 0 /\ manifest = <<>> /\ raised = FALSE
    /\ NoDoc /\ NoOcr /\ NoTables /\ NoProc

NextDoc == AssembleOut \/ SaveOpen \/ SaveDump \/ SaveClose \/ SaveFail
SpecDoc == InitDoc /\ [][NextDoc]_vars

(***************************************************************************)
(* Properties                                                              *)
(***************************************************************************)
\* the parts of a blank-line-joined string ("" has no part)
RECURSIVE SplitAcc(_, _, _)
SplitAcc(s, cur, acc) ==
    IF s = <<>> THEN Append(acc, cur)
    ELSE IF Head(s) = "\n\n" THEN SplitAcc(Tail(s), <<>>, Append(acc, cur))
    ELSE SplitAcc(Tail(s), Append(cur, Head(s)), acc)
PartsOf(s) == IF s = <<>> THEN <<>> ELSE SplitAcc(s, <<>>, <<>>)

\* how many blocks of a page carry the text t
CountOn(blocks, t) == Cardinality({j \in 1..Len(blocks) : Strip(blocks[j].text) = t})
\* how many pages carry the text t
PagesWith(pages, t) == Cardinality({i \in 1..Len(pages) : CountOn(pages[i].blocks, t) > 0})
ShortTexts(pages) ==
    {Strip(AllBlocks(pages)[k].text) : k \in 1..Len(AllBlocks(pages))}
    \cap {t \in HeaderTexts : StrLen(t) < 120}
\* max(2, ceil(0.3 * n))
CeilThreshold(n) == Max(2, (3 * n + 9) \div 10)
OncePerPage(pages) ==
    \A i \in 1..Len(pages) : \A t \in HeaderTexts : CountOn(pages[i].blocks, t) <= 1

\* C1: for a document of N pages (here: one whose pages carry each text at
\* most once, so that occurrences and pages coincide) every text shorter than
\* 120 characters is reported as repeated exactly when it is on at least
\* max(2, ceil(0.3 N)) pages; after the removal a reported text is on no page
\* and any other text is on every page where it was.
C1_RepeatedIffCeilThreshold ==
    (pc \in {"detected", "filtered"} /\ OncePerPage(text_structure)) =>
        \A t \in ShortTexts(text_structure) :
            LET isRepeated == PagesWith(text_structure, t)
                              >= CeilThreshold(Len(text_structure))
            IN  /\ InList(t, repeated) <=> isRepeated
                /\ pc = "filtered" =>
                     \A i \in 1..Len(text_structure) :
                        CountOn(pages_blocks[i].blocks, t)
                        = IF isRepeated THEN 0 ELSE CountOn(text_structure[i].blocks, t)

\* C2: the count compared with the threshold is the number of distinct pages
\* a short text is on, so a text that is on one page only is never reported
\* as repeated, however many blocks of that page carry it.
C2_CountsDistinctPages ==
    pc \in {"detected", "filtered"} =>
        \A t \in ShortTexts(text_structure) :
            /\ InList(t, repeated)
               <=> PagesWith(text_structure, t) >= RepeatThreshold(Len(text_structure))
            /\ PagesWith(text_structure, t) = 1 => ~InList(t, repeated)

\* the block texts a section consumed: its heading, when that is a block's
\* text and not a placeholder, then the parts of its text
ConsumedBy(sec) ==
    (IF sec.heading # <<>> /\ sec.heading[1] = "blk" THEN <<sec.heading>> ELSE <<>>)
    \o PartsOf(sec.text)
RECURSIVE ConsumedAll(_)
ConsumedAll(secs) ==
    IF secs = <<>> THEN <<>> ELSE ConsumedBy(Head(secs)) \o ConsumedAll(Tail(secs))

\* C3: every section has start_page <= end_page, and the blocks consumed by
\* the sections, in section order, are the blocks of the filtered pages in
\* document order, each exactly once.
C3_SectionCoverage ==
    pc = "sectioned" =>
        /\ \A k \in 1..Len(sections) :
              /\ sections[k].start_page # None
              /\ sections[k].end_page # None
              /\ sections[k].start_page[1] <= sections[k].end_page[1]
        /\ ConsumedAll(sections) = BlockTexts(AllBlocks(pages_blocks))

\* C3 witness: a document with text before its first heading, and a section
\* that runs over more than one page
C3_Witness ==
    /\ pc = "sectioned"
    /\ Len(sections) >= 2
    /\ sections[1].heading = <<"Untitled">>
    /\ \E k \in 1..Len(sections) :
          sections[k].start_page[1] < sections[k].end_page[1]

\* C4: needs_ocr is true exactly when at least half of the first
\* min(3, page_count) pages, and at least one, have fewer than 50 characters.
C4_NeedsOcrAtLeastHalf ==
    pc = "ocr_done" =>
        LET sample  == Min(3, Len(page_text_len))
            empties == Cardinality({i \in 1..sample : page_text_len[i] < 50})
        IN  scanned <=> (empties >= 1 /\ 2 * empties >= sample)

\* C7: when no block has a max_font_size there is one section per page, in
\* page order, the n-th with heading "Page n", start_page = end_page = n and
\* the page's block texts joined by blank lines as its text.
C7_FallbackOnePerPage ==
    (/\ pc = "sectioned"
     /\ \A k \in 1..Len(AllBlocks(pages_blocks)) :
           AllBlocks(pages_blocks)[k].max_font_size = None) =>
        /\ Len(sections) = Len(pages_blocks)
        /\ \A n \in 1..Len(sections) :
              /\ sections[n].heading = <<"Page ", ToString(n)>>
              /\ sections[n].start_page = <<n>>
              /\ sections[n].end_page = <<n>>
              /\ PartsOf(sections[n].text) = BlockTexts(pages_blocks[n].blocks)

\* C7 witness: three pages or more without font data, one with two blocks,
\* one with none
C7_Witness ==
    /\ pc = "sectioned"
    /\ Len(pages_blocks) >= 3
    /\ \A k \in 1..Len(AllBlocks(pages_blocks)) :
          AllBlocks(pages_blocks)[k].max_font_size = None
    /\ \E n \in 1..Len(pages_blocks) : Len(pages_blocks[n].blocks) >= 2
    /\ \E n \in 1..Len(pages_blocks) :
          pages_blocks[n].blocks = <<>> /\ sections[n].text = <<>>

\* the input texts that are a marker once trimmed and lower-cased
MarkerInputs == {<<"References">>, <<"WORKS", " ", "CITED">>}

\* C8: the references are the blank-line-joined texts of every block after
\* the first marker block, later marker blocks included, up to the end of the
\* document, and the empty string when no block is a marker.
C8_ReferencesAfterFirstMarker ==
    pc = "referenced" =>
        LET bl      == AllBlocks(pages_blocks)
            markers == {k \in 1..Len(bl) : bl[k].text \in MarkerInputs}
        IN  IF markers = {} THEN references_text = <<>>
            ELSE LET m == CHOOSE k \in markers : \A j \in markers : k <= j
                 IN  PartsOf(references_text) = [k \in 1..(Len(bl) - m) |-> bl[m + k].text]

\* C8 witness: "References" alone on page 3, two blocks on page 4, the first
\* of them a marker again
C8_Witness ==
    /\ pc = "referenced"
    /\ Len(pages_blocks) = 4
    /\ pages_blocks[1].blocks # <<>>
    /\ BlockTexts(pages_blocks[3].blocks) = <<<<"References">>>>
    /\ BlockTexts(pages_blocks[4].blocks) = <<<<"WORKS", " ", "CITED">>, <<"Intro">>>>
    /\ references_text = <<"WORKS", " ", "CITED", "\n\n", "Intro">>

\* a file that process_pdf handles without an exception: it opens, and no
\* image enumeration or extraction raises
FileSucceeds(file) ==
    /\ ~file.corrupt
    /\ \A p \in 1..Len(file.page_images) :
          /\ ~file.page_images[p].raises
          /\ \A k \in 1..Len(file.page_images[p].images) :
                ~file.page_images[p].images[k].raises

\* C5: the manifest a batch run writes has exactly one entry for each file
\* processed successfully in that run and none for a failed file, in sorted
\* file-name order, and nothing of an earlier run; a run that writes no
\* manifest leaves none behind.
C5_ManifestExactlySuccesses ==
    /\ pc = "done" =>
          /\ disk.manifest # None
          /\ LET m  == disk.manifest[1]
                 ok == {k \in 1..Len(files) : FileSucceeds(files[k])}
             IN  /\ Len(m) = Cardinality(ok)
                 /\ \A k \in ok :
                       \E i \in 1..Len(m) :
                          /\ m[i].filename = files[k].stem \o <<".", "p", "d", "f">>
                          /\ m[i].doc_id = <<run, k>>
                 /\ \A i \in 1..Len(m) : \A j \in 1..Len(m) :
                       i < j => StrLess(m[i].filename, m[j].filename)
    /\ pc = "raised" => disk.manifest = None

\* C5 witness: a second run over three files of which the second is corrupt
C5_Witness ==
    /\ pc = "done"
    /\ run = 2
    /\ Len(files) = 3
    /\ files[2].corrupt /\ FileSucceeds(files[1]) /\ FileSucceeds(files[3])
    /\ Len(disk.manifest[1]) = 2

\* C6: whatever files fail, batch_process on a directory that holds PDF
\* files reaches the manifest-writing step and completes it without raising.
C6_BatchNeverRaises == files # <<>> => pc # "raised"

\* C9: a file that opens is never aborted by the image collaborator:
\* process_pdf returns its document (the manifest has its entry) and its JSON
\* is on disk, with the images that did not fail.
C9_ImageFailureNeverAborts ==
    \A k \in 1..idx :
        ~files[k].corrupt =>
            /\ \E i \in 1..Len(manifest) : manifest[i].doc_id = <<run, k>>
            /\ \E e \in disk.json :
                  /\ e.path = JsonPath(files[k].stem)
                  /\ \A p \in 1..Len(files[k].page_images) :
                        \A n \in 1..Len(files[k].page_images[p].images) :
                            ~files[k].page_images[p].images[n].raises =>
                                \E g \in 1..Len(e.content.figures) :
                                    e.content.figures[g].page = p

\* the number of tables recorded for the pages before page i
RECURSIVE TablesBefore(_, _)
TablesBefore(answers, i) ==
    IF i <= 1 THEN 0
    ELSE TablesBefore(answers, i - 1)
         + (IF answers[i - 1].raises THEN 0 ELSE Len(answers[i - 1].tables))

\* C10: a page whose table detection raises contributes no record; every
\* table of every other page is recorded, in page order, with its page
\* number, its path <stem>_p<page>_table<index>.csv, rows = number of rows
\* and cols = width of the first row (0 for an empty matrix).
C10_TablesPerPage ==
    pc = "tables_done" =>
        /\ Len(tables_meta) = TablesBefore(page_tables, Len(page_tables) + 1)
        /\ \A i \in 1..Len(page_tables) :
              ~page_tables[i].raises =>
                 \A t \in 1..Len(page_tables[i].tables) :
                    LET rec == tables_meta[TablesBefore(page_tables, i) + t]
                        tbl == page_tables[i].tables[t]
                    IN  /\ rec.page = i
                        /\ rec.csv_path.dir = "tables"
                        /\ rec.csv_path.name =
                              <<"a", "_", "b", "_p", ToString(i), "_table", ToString(t), ".csv">>
                        /\ rec.rows = Len(tbl)
                        /\ rec.cols = (IF tbl = <<>> THEN 0 ELSE Len(tbl[1]))
                        /\ rec.raw = tbl

\* C10 witness: detection raises on page 2 of 3; page 1 has two tables, page
\* 3 an empty matrix
C10_Witness ==
    /\ pc = "tables_done"
    /\ Len(page_tables) = 3
    /\ page_tables[2].raises
    /\ ~page_tables[1].raises /\ Len(page_tables[1].tables) = 2
    /\ ~page_tables[3].raises /\ page_tables[3].tables = <<<<>>>>
    /\ Len(tables_meta) = 3
    /\ tables_meta[3].page = 3 /\ tables_meta[3].cols = 0

\* every output path process_pdf derives for a file: its JSON, and the CSV
\* and image of every table and image the collaborators answer with
DerivedPaths(file) ==
    {JsonPath(file.stem)}
    \cup PathsOf(extract_tables(file.stem, file.page_tables), "csv_path")
    \cup PathsOf(extract_images(file.stem, file.page_images).meta, "path")

\* C11: two files of one directory with different names derive disjoint
\* output paths, so no document of a batch overwrites the JSON of another:
\* the JSON of every file processed successfully so far is still on disk.
C11_DistinctOutputPaths ==
    /\ \A i \in 1..Len(files) : \A j \in 1..Len(files) :
          i # j => DerivedPaths(files[i]) \cap DerivedPaths(files[j]) = {}
    /\ \A k \in 1..idx :
          FileSucceeds(files[k]) =>
             \E e \in disk.json : /\ e.path = JsonPath(files[k].stem)
                                  /\ e.content.doc_id = <<run, k>>

\* C17: after batch_process completes, the file at every manifest entry's
\* json_path exists and holds the document with the entry's doc_id and
\* filename, and no two entries share a json_path.
C17_ManifestMatchesDisk ==
    pc = "done" =>
        LET m == disk.manifest[1]
        IN  /\ \A i \in 1..Len(m) :
                  \E e \in disk.json : /\ e.path = m[i].json_path
                                       /\ e.content.doc_id = m[i].doc_id
                                       /\ e.content.filename = m[i].filename
            /\ \A i \in 1..Len(m) : \A j \in 1..Len(m) :
                  i # j => m[i].json_path # m[j].json_path

\* the blocks of bl that have a max_font_size: a present, non-zero value
\* (a span without size information reports 0)
SizedBlocks(bl) ==
    {k \in 1..Len(bl) : bl[k].max_font_size # <<>> /\ bl[k].max_font_size[1] > 0}

\* the j-th smallest of the max_font_size values of the blocks in sized, by
\* counting
RankedSize(bl, sized, j) ==
    CHOOSE v \in {bl[k].max_font_size[1] : k \in sized} :
        /\ Cardinality({k \in sized : bl[k].max_font_size[1] < v}) < j
        /\ j <= Cardinality({k \in sized : bl[k].max_font_size[1] <= v})

\* 100 times the 90th percentile of the sized blocks' max_font_size: the
\* value at rank 1 + 0.9 (n - 1), interpolated linearly between neighbours
ClaimedThreshold100(bl) ==
    LET sized == SizedBlocks(bl)
        n  == Cardinality(sized)
        q  == (90 * (n - 1)) \div 100
        r  == (90 * (n - 1)) % 100
        lo == RankedSize(bl, sized, q + 1)
        hi == RankedSize(bl, sized, IF q + 2 <= n THEN q + 2 ELSE n)
    IN  100 * lo + r * (hi - lo)

\* the block b has a max_font_size that is at least the threshold
MeetsThreshold(b, t100) ==
    /\ b.max_font_size # <<>>
    /\ b.max_font_size[1] > 0
    /\ 100 * b.max_font_size[1] >= t100
\* the block b was treated as a heading: its text is a section's heading
\* (the text of a block names its position, so it is no other block's)
TreatedAsHeading(b) ==
    \E i \in 1..Len(sections) : sections[i].heading = b.text

C16_SomeHeadingNoIntroduction ==
    pc = "sectioned" =>
        LET bl    == AllBlocks(pages_blocks)
            sized == SizedBlocks(bl)
            t     == ClaimedThreshold100(bl)
        IN  sized # {} =>
              /\ \A k \in sized :
                    (\A j \in sized : bl[j].max_font_size[1] <= bl[k].max_font_size[1])
                        => TreatedAsHeading(bl[k])
              /\ Len(sections) >= 1
              /\ sections[1].heading = <<"Untitled">> <=> ~MeetsThreshold(bl[1], t)
              /\ \A i \in 1..Len(sections) :
                    /\ sections[i].heading # <<"Introduction">>
                    /\ (i > 1 \/ MeetsThreshold(bl[1], t)) =>
                          \E k \in sized : /\ MeetsThreshold(bl[k], t)
                                           /\ sections[i].heading = bl[k].text

\* C16 witness: text before the first heading, three sections or more, and
\* blocks of equal largest size
C16_Witness ==
    /\ pc = "sectioned"
    /\ Len(sections) >= 3
    /\ sections[1].heading = <<"Untitled">>
    /\ LET bl == AllBlocks(pages_blocks)
       IN  /\ \E j \in SizedBlocks(bl) : \E k \in SizedBlocks(bl) :
                 /\ j # k
                 /\ bl[j].max_font_size = bl[k].max_font_size
                 /\ TreatedAsHeading(bl[j])
                 /\ TreatedAsHeading(bl[k])
           /\ \E k \in 1..Len(bl) : k \notin SizedBlocks(bl)

\* the text has a character that is not white space
HasVisibleText(text) == \E i \in 1..Len(text) : text[i] \notin {" ", "\n\n"}

\* C14: every block extract_text_blocks produces has a text that is not
\* empty after trimming, and so has every block that is left after
\* remove_repeated_headers_from_blocks.
C14_BlocksHaveText ==
    pc \in {"extracted", "detected", "filtered"} =>
        /\ \A k \in 1..Len(AllBlocks(text_structure)) :
              HasVisibleText(AllBlocks(text_structure)[k].text)
        /\ \A k \in 1..Len(AllBlocks(pages_blocks)) :
              HasVisibleText(AllBlocks(pages_blocks)[k].text)

\* C14 witness: the layout held a text block of blanks, a repeated phrase
\* was removed, and a block is left
C14_Witness ==
    /\ pc = "filtered"
    /\ \E p \in 1..Len(page_dicts) : \E k \in 1..Len(page_dicts[p].blocks) :
          LET b == page_dicts[p].blocks[k]
          IN  b.type = 0 /\ b.lines # <<>> /\ ~HasVisibleText(BlockText(SpansOf(b.lines)))
    /\ repeated # <<>>
    /\ Len(AllBlocks(pages_blocks)) < Len(AllBlocks(text_structure))
    /\ AllBlocks(pages_blocks) # <<>>

\* the JSON files at the output path of the document being processed
AtOutPath(dsk) == {e \in dsk.json : e.path = JsonPath(files[1].stem)}

\* C12: at every point of process_pdf the output path does not exist, holds
\* the previous complete JSON or holds the new complete JSON, so that a
\* failed save leaves no partial file.
C12_JsonNeverPartial ==
    \/ AtOutPath(disk) = {}
    \/ AtOutPath(disk) = AtOutPath(DiskAfterRuns(files[1], run - 1))
    \/ /\ out # None
       /\ AtOutPath(disk) = {[path |-> JsonPath(files[1].stem), content |-> out[1]]}

\* the text between its first and its last visible character
Trimmed(text) ==
    LET vis == {i \in 1..Len(text) : text[i] \notin {" ", "\n\n"}}
    IN  IF vis = {} THEN <<>>
        ELSE SubSeq(text, CHOOSE i \in vis : \A j \in vis : i <= j,
                          CHOOSE i \in vis : \A j \in vis : i >= j)

\* C15: the title is the metadata title when that is not empty, else the
\* heading of the first section when there is a section, else the stem of
\* the file name.
C15_TitleFallbackChain ==
    out # None =>
        LET doc == out[1]
        IN  /\ doc.metadata.title # <<>> => doc.title = doc.metadata.title
            /\ (doc.metadata.title = <<>> /\ Len(doc.sections) >= 1) =>
                  doc.title = doc.sections[1].heading
            /\ (doc.metadata.title = <<>> /\ Len(doc.sections) = 0) =>
                  doc.title = files[1].stem
            /\ doc.metadata.title = Trimmed(files[1].meta_title)

\* C15 witness: a metadata title and a first section, the title taken from
\* the metadata
C15_Witness ==
    /\ pc = "saved"
    /\ out[1].metadata.title = <<"T">>
    /\ out[1].sections # <<>>
    /\ out[1].title = <<"T">>

====
